---- MODULE Spec2Model ----
(***************************************************************************)
(* Model of Scripts/AIGenerated/pdf_to_corrected_yaml.py: the correction / *)
(* enrichment pipeline over a batch of slokas.                             *)
(*                                                                         *)
(* A text (Python str) is a sequence of symbols.  A symbol is one          *)
(* character (a space, a line break, a danda, a backquote, a letter) or    *)
(* one JSON token (a bracket, a literal); the string operations of the     *)
(* program that slice by position (the [7:] and [:-3] slices) only ever    *)
(* cut backquotes and the letters j, s, o, n, which are single characters. *)
(***************************************************************************)
EXTENDS Integers, Sequences, FiniteSets, TLC

VARIABLES
    \* the normalization on its own: the text, its normalization, and the
    \* normalization of that
    n_pc, n_text, n_once, n_twice,
    \* the enrichment of one reply on its own: the value the oracle encoded,
    \* the reply bare and in a code fence, and what main holds after line 282
    \* for the bare reply, for the fenced one, and for a call that raised
    e_pc, e_doc, e_text, e_fenced, e_plain, e_wrapped, e_failed,
    \* main: where it stands, and its variables of the same names
    pc, yaml_data, skip_enrichment, i, message, corrected_sloka, corrected_data,
    parsed, enriched_data, final_data,
    \* the YAML file written by line 298
    yaml_file,
    \* the calls made to the two oracles so far, in order
    calls,
    \* the key line 257 set for each sloka corrected so far, in order
    keys

n_vars == <<n_pc, n_text, n_once, n_twice>>
e_vars == <<e_pc, e_doc, e_text, e_fenced, e_plain, e_wrapped, e_failed>>
m_vars == <<pc, yaml_data, skip_enrichment, i, message, corrected_sloka, corrected_data,
            parsed, enriched_data, final_data, yaml_file, calls, keys>>
vars == <<n_vars, e_vars, m_vars>>

---------------------------------------------------------------------------
(* Bounds of the model *)

\* longest text handed to the normalization
MaxTextLen == 4
\* most entries in one reply of the semantic-parse oracle
MaxEntries == 2
\* most slokas in one batch
MaxSlokas == 3

---------------------------------------------------------------------------
(* Characters *)

SP == " "
NL == "\n"
\* the single danda (U+0964) and the double danda (U+0965)
Danda == "|"
DoubleDanda == "||"
\* the backquote of a markdown code fence
BT == "^"

\* the characters str.split() and str.strip() treat as whitespace
Whitespace == {SP, NL}

---------------------------------------------------------------------------
(* Python str operations *)

\* s[n:]
DropFirst(s, n) == SubSeq(s, n + 1, Len(s))

\* s[:-n]
DropLast(s, n) == SubSeq(s, 1, Len(s) - n)

\* s.startswith(p)
StartsWith(s, p) == Len(s) >= Len(p) /\ SubSeq(s, 1, Len(p)) = p

\* s.endswith(p)
EndsWith(s, p) == Len(s) >= Len(p) /\ SubSeq(s, Len(s) - Len(p) + 1, Len(s)) = p

RECURSIVE LStrip(_)
LStrip(s) == IF s # <<>> /\ s[1] \in Whitespace THEN LStrip(Tail(s)) ELSE s

RECURSIVE RStrip(_)
RStrip(s) ==
    IF s # <<>> /\ s[Len(s)] \in Whitespace THEN RStrip(DropLast(s, 1)) ELSE s

\* s.strip()
Strip(s) == RStrip(LStrip(s))

\* a mutant of Replace: only the first occurrence is replaced (count = 1)
RECURSIVE ReplaceFirst(_, _, _)
ReplaceFirst(s, old, new) ==
    IF Len(s) < Len(old) THEN s
    ELSE IF StartsWith(s, old) THEN new \o DropFirst(s, Len(old))
    ELSE <<s[1]>> \o ReplaceFirst(Tail(s), old, new)

\* s.replace(old, new): every non-overlapping occurrence, scanning from the left
RECURSIVE Replace(_, _, _)
Replace(s, old, new) ==
    IF Len(s) < Len(old) THEN s
    ELSE IF StartsWith(s, old) THEN new \o Replace(DropFirst(s, Len(old)), old, new)
    ELSE <<s[1]>> \o Replace(Tail(s), old, new)

\* s.split(): the maximal runs of non-whitespace characters
RECURSIVE SplitWords(_, _, _)
SplitWords(s, word, acc) ==
    IF s = <<>> THEN (IF word = <<>> THEN acc ELSE Append(acc, word))
    ELSE IF s[1] \in Whitespace
         THEN SplitWords(Tail(s), <<>>, IF word = <<>> THEN acc ELSE Append(acc, word))
         ELSE SplitWords(Tail(s), Append(word, s[1]), acc)

Split(s) == SplitWords(s, <<>>, <<>>)

\* s.split(sep) for a one-character sep: the pieces between the separators,
\* empty pieces included
RECURSIVE SplitOnAcc(_, _, _, _)
SplitOnAcc(s, sep, piece, acc) ==
    IF s = <<>> THEN Append(acc, piece)
    ELSE IF s[1] = sep THEN SplitOnAcc(Tail(s), sep, <<>>, Append(acc, piece))
    ELSE SplitOnAcc(Tail(s), sep, Append(piece, s[1]), acc)

SplitOn(s, sep) == SplitOnAcc(s, sep, <<>>, <<>>)

\* sep.join(parts)
RECURSIVE Join(_, _)
Join(sep, parts) ==
    IF parts = <<>> THEN <<>>
    ELSE IF Len(parts) = 1 THEN parts[1]
    ELSE parts[1] \o sep \o Join(sep, Tail(parts))

---------------------------------------------------------------------------
(* main, step 4: the normalization of a corrected sloka *)

NormalizeSloka(sloka) ==
    LET one_line == Replace(sloka, <<NL>>, <<SP>>)
        spaced   == Join(<<SP>>, Split(one_line))
    IN  Replace(spaced, <<Danda, Danda>>, <<DoubleDanda>>)

---------------------------------------------------------------------------
(* Python dicts and decoded JSON values *)

\* A decoded JSON value: t is its type, s the text of a scalar, and for a
\* list c holds the elements, for a dict k the keys in insertion order and c
\* their values.
JV(t, s, k, c) == [t |-> t, s |-> s, k |-> k, c |-> c]

JNull == JV("null", "null", <<>>, <<>>)
JTrue == JV("bool", "true", <<>>, <<>>)
JFalse == JV("bool", "false", <<>>, <<>>)
JNum(s) == JV("num", s, <<>>, <<>>)
JStr(s) == JV("str", s, <<>>, <<>>)
JList(c) == JV("list", "", <<>>, c)
JObj(k, c) == JV("obj", "", k, c)

\* {}
EmptyMapping == JObj(<<>>, <<>>)

\* key in d
DictHas(d, key) == \E p \in 1..Len(d.k) : d.k[p] = key

DictPos(d, key) == CHOOSE p \in 1..Len(d.k) : d.k[p] = key

\* d[key]
DictGet(d, key) == d.c[DictPos(d, key)]

\* a mutant of DictSet: a key set again moves to the end
DictSetMovesKey(d, key, value) ==
    LET keep == {p \in 1..Len(d.k) : d.k[p] # key}
        pick(seq) == [q \in 1..Cardinality(keep) |->
                        seq[CHOOSE p \in keep : Cardinality({r \in keep : r < p}) = q - 1]]
    IN  [d EXCEPT !.k = Append(pick(d.k), key), !.c = Append(pick(d.c), value)]

\* d[key] = value: a new key is appended, a key already present keeps its place
DictSet(d, key, value) ==
    IF DictHas(d, key)
    THEN [d EXCEPT !.c[DictPos(d, key)] = value]
    ELSE [d EXCEPT !.k = Append(d.k, key), !.c = Append(d.c, value)]

---------------------------------------------------------------------------
(* json.loads over the tokens of the reply *)

LBrace == "{"
RBrace == "}"
LBrack == "["
RBrack == "]"
Colon == ":"
Comma == ","

\* the string literals of the replies, each one token, and the str each decodes to
StringLiteral ==
    ("\"entries\"" :> "entries") @@ ("\"head\"" :> "head") @@
    ("\"verify\"" :> "verify") @@ ("\"gender\"" :> "gender") @@
    ("\"m\"" :> "m") @@ ("\"x\"" :> "x")

\* the number literals
NumberLiteral == {"5"}

DecodeFail == [ok |-> FALSE, v |-> JNull, rest |-> <<>>]

Decoded(v, rest) == [ok |-> TRUE, v |-> v, rest |-> rest]

RECURSIVE ParseValue(_), ParseElements(_, _), ParseMembers(_, _)

\* one JSON value at the head of ts
ParseValue(ts) ==
    IF ts = <<>> THEN DecodeFail
    ELSE IF ts[1] \in DOMAIN StringLiteral THEN Decoded(JStr(StringLiteral[ts[1]]), Tail(ts))
    ELSE IF ts[1] \in NumberLiteral THEN Decoded(JNum(ts[1]), Tail(ts))
    ELSE IF ts[1] = "true" THEN Decoded(JTrue, Tail(ts))
    ELSE IF ts[1] = "false" THEN Decoded(JFalse, Tail(ts))
    ELSE IF ts[1] = "null" THEN Decoded(JNull, Tail(ts))
    ELSE IF ts[1] = LBrack
         THEN IF Len(ts) >= 2 /\ ts[2] = RBrack
              THEN Decoded(JList(<<>>), DropFirst(ts, 2))
              ELSE ParseElements(Tail(ts), <<>>)
    ELSE IF ts[1] = LBrace
         THEN IF Len(ts) >= 2 /\ ts[2] = RBrace
              THEN Decoded(EmptyMapping, DropFirst(ts, 2))
              ELSE ParseMembers(Tail(ts), EmptyMapping)
    ELSE DecodeFail

\* the elements of a list after its opening bracket, up to the closing one
ParseElements(ts, acc) ==
    LET r == ParseValue(ts)
    IN  IF ~r.ok \/ r.rest = <<>> THEN DecodeFail
        ELSE IF r.rest[1] = Comma THEN ParseElements(Tail(r.rest), Append(acc, r.v))
        ELSE IF r.rest[1] = RBrack THEN Decoded(JList(Append(acc, r.v)), Tail(r.rest))
        ELSE DecodeFail

\* the members of an object after its opening brace, up to the closing one;
\* a key given twice keeps its first place and its last value
ParseMembers(ts, acc) ==
    IF Len(ts) < 2 \/ ts[1] \notin DOMAIN StringLiteral \/ ts[2] # Colon THEN DecodeFail
    ELSE LET r == ParseValue(DropFirst(ts, 2))
             d == DictSet(acc, StringLiteral[ts[1]], r.v)
         IN  IF ~r.ok \/ r.rest = <<>> THEN DecodeFail
             ELSE IF r.rest[1] = Comma THEN ParseMembers(Tail(r.rest), d)
             ELSE IF r.rest[1] = RBrace THEN Decoded(d, Tail(r.rest))
             ELSE DecodeFail

\* json.loads(text): ok is FALSE where it raises JSONDecodeError
json_loads(text) ==
    LET tokens == SelectSeq(text, LAMBDA c : c \notin Whitespace)
        r == ParseValue(tokens)
    IN  IF r.ok /\ r.rest = <<>> THEN r ELSE DecodeFail

---------------------------------------------------------------------------
(* parse_sloka_with_claude *)

Fence == <<BT, BT, BT>>
FenceJson == <<BT, BT, BT, "j", "s", "o", "n">>

\* what parse_sloka_with_claude returns from both except clauses
EmptyEntries == JObj(<<"entries">>, <<JList(<<>>)>>)

\* lines 141-152: the reply with its markdown code block removed
StripCodeBlock(text) ==
    LET stripped == Strip(text)
        lines == SplitOn(stripped, NL)
        inner == IF StartsWith(stripped, Fence) /\ Len(lines) > 2
                 THEN Join(<<NL>>, SubSeq(lines, 2, Len(lines) - 1))
                 ELSE stripped
        untagged == IF StartsWith(inner, FenceJson) THEN DropFirst(inner, 7) ELSE inner
        unclosed == IF EndsWith(untagged, Fence) THEN DropLast(untagged, 3) ELSE untagged
    IN  Strip(unclosed)

\* a mutant of parse_sloka_with_claude: a reply that does not decode is
\* handed back as None
parse_sloka_returns_none(reply) ==
    IF reply.raises THEN EmptyEntries
    ELSE LET r == json_loads(StripCodeBlock(reply.text))
         IN  IF r.ok THEN r.v ELSE JNull

\* lines 132-163; reply.raises: client.messages.create raised
parse_sloka_with_claude(reply) ==
    IF reply.raises THEN EmptyEntries
    ELSE LET r == json_loads(StripCodeBlock(reply.text))
         IN  IF r.ok THEN r.v ELSE EmptyEntries

---------------------------------------------------------------------------
(* main, lines 271-282: verify: false right after head *)

\* the strings of the replies that hold 'head' as a substring
HoldsHead(s) == s \in {"head"}

\* lines 277-279: the fields other than head, in their order, set on new_entry
RECURSIVE RemainingFields(_, _, _)
RemainingFields(entry, p, new_entry) ==
    IF p > Len(entry.k) THEN new_entry
    ELSE RemainingFields(entry, p + 1,
            IF entry.k[p] # "head"
            THEN DictSet(new_entry, entry.k[p], entry.c[p])
            ELSE new_entry)

\* lines 275-282: the entry rebuilt as head, verify, then its other fields
OrderedEntry(entry) ==
    RemainingFields(entry, 1,
        JObj(<<"head", "verify">>, <<DictGet(entry, "head"), JFalse>>))

\* 'head' in entry, and entry['head'], raise TypeError
EntryRaises(entry) ==
    \/ entry.t \in {"num", "bool", "null"}
    \/ entry.t = "str" /\ HoldsHead(entry.s)
    \/ entry.t = "list" /\ \E p \in 1..Len(entry.c) : entry.c[p] = JStr("head")

\* 'head' in entry, for a mapping
HasHead(entry) == entry.t = "obj" /\ DictHas(entry, "head")

\* a mutant of OrderEntries: verify: false is also set on a mapping without head
RECURSIVE OrderEntriesVerifyAll(_, _)
OrderEntriesVerifyAll(entries, p) ==
    IF p > Len(entries) THEN [raised |-> FALSE, entries |-> entries]
    ELSE IF EntryRaises(entries[p]) THEN [raised |-> TRUE, entries |-> entries]
    ELSE IF HasHead(entries[p])
         THEN OrderEntriesVerifyAll([entries EXCEPT ![p] = OrderedEntry(entries[p])], p + 1)
    ELSE IF entries[p].t = "obj"
         THEN OrderEntriesVerifyAll(
                [entries EXCEPT ![p] = DictSet(entries[p], "verify", JFalse)], p + 1)
    ELSE OrderEntriesVerifyAll(entries, p + 1)

\* the for loop of line 272 over a list, from position p: the entries are
\* rebuilt in place, so the list at the time of an exception keeps what
\* was done before it
RECURSIVE OrderEntries(_, _)
OrderEntries(entries, p) ==
    IF p > Len(entries) THEN [raised |-> FALSE, entries |-> entries]
    ELSE IF EntryRaises(entries[p]) THEN [raised |-> TRUE, entries |-> entries]
    ELSE IF HasHead(entries[p])
         THEN OrderEntries([entries EXCEPT ![p] = OrderedEntry(entries[p])], p + 1)
    ELSE OrderEntries(entries, p + 1)

\* lines 272-282 on the value parse_sloka_with_claude returned; raised: the
\* exception leaves main
AddVerify(response) ==
    IF response.t # "obj" THEN [raised |-> TRUE, parsed |-> response]
    ELSE IF ~DictHas(response, "entries") THEN [raised |-> FALSE, parsed |-> response]
    ELSE LET entries == DictGet(response, "entries")
         IN  IF entries.t = "list"
             THEN LET r == OrderEntries(entries.c, 1)
                  IN  [raised |-> r.raised,
                       parsed |-> DictSet(response, "entries", JList(r.entries))]
             ELSE IF entries.t = "str"
             THEN [raised |-> FALSE, parsed |-> response]
             ELSE IF entries.t = "obj"
             THEN [raised |-> \E p \in 1..Len(entries.k) : HoldsHead(entries.k[p]),
                   parsed |-> response]
             ELSE [raised |-> TRUE, parsed |-> response]

---------------------------------------------------------------------------
(* All texts of a bounded length over an alphabet *)

RECURSIVE TextsUpTo(_, _)
TextsUpTo(alphabet, n) ==
    IF n = 0 THEN {<<>>}
    ELSE LET shorter == TextsUpTo(alphabet, n - 1)
         IN  shorter \cup {Append(t, c) : t \in {u \in shorter : Len(u) = n - 1},
                                          c \in alphabet}

SlokaAlphabet == {"a", SP, NL, Danda, DoubleDanda}

---------------------------------------------------------------------------
(* The parts of the state a specification leaves alone *)

NIdle ==
    /\ n_pc = "idle"
    /\ n_text = <<>>
    /\ n_once = <<>>
    /\ n_twice = <<>>

NoResult == [raised |-> FALSE, parsed |-> JNull]

EIdle ==
    /\ e_pc = "idle"
    /\ e_doc = JNull
    /\ e_text = <<>>
    /\ e_fenced = <<>>
    /\ e_plain = NoResult
    /\ e_wrapped = NoResult
    /\ e_failed = NoResult

\* no call made yet: what message holds before the first call
NoMessage == [raises |-> FALSE, text |-> <<>>]

NoFile == [exists |-> FALSE, data |-> EmptyMapping]

MIdle ==
    /\ pc = "idle"
    /\ yaml_data = <<>>
    /\ skip_enrichment = FALSE
    /\ i = 0
    /\ message = NoMessage
    /\ corrected_sloka = <<>>
    /\ corrected_data = EmptyMapping
    /\ parsed = JNull
    /\ enriched_data = EmptyMapping
    /\ final_data = EmptyMapping
    /\ yaml_file = NoFile
    /\ calls = <<>>
    /\ keys = <<>>

---------------------------------------------------------------------------
(* The replies of the semantic-parse oracle *)

\* the token of a string literal
Quote(s) == CHOOSE tok \in DOMAIN StringLiteral : StringLiteral[tok] = s

Break(multiline) == IF multiline THEN <<NL>> ELSE <<>>

RECURSIVE Encode(_, _), EncodeElements(_, _), EncodeMembers(_, _, _)

\* the JSON text of a value, on one line or with a line break after every
\* bracket and comma
Encode(v, multiline) ==
    IF v.t = "str" THEN <<Quote(v.s)>>
    ELSE IF v.t \in {"num", "bool", "null"} THEN <<v.s>>
    ELSE IF v.t = "list"
         THEN IF v.c = <<>> THEN <<LBrack, RBrack>>
              ELSE <<LBrack>> \o Break(multiline) \o EncodeElements(v.c, multiline)
                     \o Break(multiline) \o <<RBrack>>
    ELSE IF v.k = <<>> THEN <<LBrace, RBrace>>
         ELSE <<LBrace>> \o Break(multiline) \o EncodeMembers(v.k, v.c, multiline)
                \o Break(multiline) \o <<RBrace>>

EncodeElements(c, multiline) ==
    IF Len(c) = 1 THEN Encode(c[1], multiline)
    ELSE Encode(c[1], multiline) \o <<Comma>> \o (IF multiline THEN <<NL>> ELSE <<SP>>)
           \o EncodeElements(Tail(c), multiline)

EncodeMembers(k, c, multiline) ==
    LET member == <<Quote(k[1]), Colon, SP>> \o Encode(c[1], multiline)
    IN  IF Len(k) = 1 THEN member
        ELSE member \o <<Comma>> \o (IF multiline THEN <<NL>> ELSE <<SP>>)
               \o EncodeMembers(Tail(k), Tail(c), multiline)

\* the entries a reply may hold: mappings with head first, with head last,
\* with a verify of their own, without head, and values that are no mapping
EntryShapes ==
    { JObj(<<"head", "gender">>, <<JStr("x"), JStr("m")>>),
      JObj(<<"gender", "head">>, <<JStr("m"), JStr("x")>>),
      JObj(<<"head", "gender", "verify">>, <<JStr("x"), JStr("m"), JTrue>>),
      JObj(<<"gender">>, <<JStr("m")>>),
      JObj(<<"verify", "gender">>, <<JTrue, JStr("m")>>),
      JNum("5"),
      JStr("head") }

RECURSIVE SeqsUpTo(_, _)
SeqsUpTo(S, n) ==
    IF n = 0 THEN {<<>>}
    ELSE LET shorter == SeqsUpTo(S, n - 1)
         IN  shorter \cup {Append(t, x) : t \in {u \in shorter : Len(u) = n - 1}, x \in S}

\* replies of the requested schema: {"entries": [...]}
SchemaDocs == {JObj(<<"entries">>, <<JList(es)>>) : es \in SeqsUpTo(EntryShapes, MaxEntries)}

\* valid JSON of another schema
OtherDocs ==
    { EmptyMapping,
      JList(<<>>),
      JNum("5"),
      JObj(<<"entries">>, <<JNum("5")>>),
      JObj(<<"entries">>, <<JNull>>),
      JObj(<<"entries">>, <<JStr("m")>>),
      JObj(<<"entries">>, <<JObj(<<"head">>, <<JStr("x")>>)>>) }

\* what stands for the value of a reply that is no JSON
Undecodable == JV("undecodable", "", <<>>, <<>>)

\* replies that are no JSON: a reply cut short (every proper prefix of a
\* one-entry reply), and a reply followed by a stray word
Garbage ==
    LET texts == {Encode(JObj(<<"entries">>, <<JList(<<e>>)>>), FALSE) : e \in EntryShapes}
    IN  UNION {{SubSeq(t, 1, n) : n \in 0..(Len(t) - 1)} : t \in texts}
          \cup {Append(t, "x") : t \in texts}

ReplySources ==
    {[doc |-> d, text |-> Encode(d, ml)] : d \in SchemaDocs \cup OtherDocs, ml \in BOOLEAN}
      \cup {[doc |-> Undecodable, text |-> g] : g \in Garbage}

\* the reply wrapped in a markdown code fence
Fenced(text, tag, open_nl, close_nl) ==
    Fence \o tag \o Break(open_nl) \o text \o Break(close_nl) \o Fence

---------------------------------------------------------------------------
(* The enrichment of one reply: parse_sloka_with_claude, then lines 271-282 *)

Enrich(reply) == AddVerify(parse_sloka_with_claude(reply))

EInit ==
    /\ e_pc = "reply"
    /\ \E src \in ReplySources :
         /\ e_doc = src.doc
         /\ e_text = src.text
         /\ \E tag \in {<<>>, <<"j", "s", "o", "n">>}, open_nl \in BOOLEAN, close_nl \in BOOLEAN :
              e_fenced = Fenced(src.text, tag, open_nl, close_nl)
    /\ e_plain = NoResult
    /\ e_wrapped = NoResult
    /\ e_failed = NoResult
    /\ NIdle
    /\ MIdle

EnrichPlain ==
    /\ e_pc = "reply"
    /\ e_plain' = Enrich([raises |-> FALSE, text |-> e_text])
    /\ e_pc' = "plain"
    /\ UNCHANGED <<e_doc, e_text, e_fenced, e_wrapped, e_failed, n_vars, m_vars>>

EnrichFenced ==
    /\ e_pc = "plain"
    /\ e_wrapped' = Enrich([raises |-> FALSE, text |-> e_fenced])
    /\ e_pc' = "fenced"
    /\ UNCHANGED <<e_doc, e_text, e_fenced, e_plain, e_failed, n_vars, m_vars>>

EnrichRaised ==
    /\ e_pc = "fenced"
    /\ e_failed' = Enrich([raises |-> TRUE, text |-> <<>>])
    /\ e_pc' = "done"
    /\ UNCHANGED <<e_doc, e_text, e_fenced, e_plain, e_wrapped, n_vars, m_vars>>

ENext == EnrichPlain \/ EnrichFenced \/ EnrichRaised

SpecEnrich == EInit /\ [][ENext]_vars

---------------------------------------------------------------------------
(* Properties of the enrichment of one reply *)

\* the reply has the requested schema: a mapping whose entries is a list
IsSchemaDoc(doc) ==
    doc.t = "obj" /\ DictHas(doc, "entries") /\ DictGet(doc, "entries").t = "list"

\* the entries of a reply of the requested schema
EntriesOf(doc) == DictGet(doc, "entries").c

\* the entry is a mapping with a head field
CarriesHead(entry) == entry.t = "obj" /\ \E p \in 1..Len(entry.k) : entry.k[p] = "head"

Enriched == e_pc \in {"plain", "fenced", "done"}

EmptyResult == [raised |-> FALSE, parsed |-> EmptyEntries]

\* C3: a reply wrapped in a code fence, with or without a language tag and
\* on any number of lines, is enriched to the same records as the reply
\* without the fence (stated for the replies of the requested schema that
\* are enriched without an exception).
FencedSameAsBare ==
    (e_pc \in {"fenced", "done"} /\ IsSchemaDoc(e_doc) /\ ~e_plain.raised) =>
        e_wrapped = e_plain

\* C4: after the field ordering every entry with a head has the fields head,
\* verify, then its other fields in their order, and its verify is false,
\* also when the entry came with a verify of its own.
VerifyFalseAfterHead ==
    (Enriched /\ IsSchemaDoc(e_doc) /\ ~e_plain.raised) =>
        \A p \in 1..Len(EntriesOf(e_doc)) :
            LET entry == EntriesOf(e_doc)[p]
                new_entry == EntriesOf(e_plain.parsed)[p]
                others == SelectSeq(entry.k, LAMBDA key : key \notin {"head", "verify"})
            IN  CarriesHead(entry) =>
                    /\ new_entry.k = <<"head", "verify">> \o others
                    /\ DictGet(new_entry, "head") = DictGet(entry, "head")
                    /\ DictGet(new_entry, "verify") = JFalse
                    /\ \A q \in 1..Len(others) :
                           DictGet(new_entry, others[q]) = DictGet(entry, others[q])

\* C7: a reply that is no JSON, bare or in a code fence, and a call of the
\* oracle that raises, each give {"entries": []} and no exception.
MalformedReplyGivesEmpty ==
    /\ (Enriched /\ e_doc = Undecodable) => e_plain = EmptyResult
    /\ (e_pc \in {"fenced", "done"} /\ e_doc = Undecodable) => e_wrapped = EmptyResult
    /\ e_pc = "done" => e_failed = EmptyResult

\* C7, the case: a reply cut short after its first tokens was enriched, and
\* so was a call that raised.
MalformedReplyWitness ==
    /\ e_pc = "done"
    /\ e_doc = Undecodable
    /\ Len(e_text) >= 5
    /\ e_plain.parsed = EmptyEntries
    /\ e_failed.parsed = EmptyEntries

\* C10: an entry without a head field is left as decoded by the field
\* ordering: no verify is set on it, no field of it is removed or moved, and
\* it stays at its place in the record sequence main holds after the loop
\* (or at the exception that ends the loop).
HeadlessEntryUnchanged ==
    (Enriched /\ IsSchemaDoc(e_doc)) =>
        /\ IsSchemaDoc(e_plain.parsed)
        /\ Len(EntriesOf(e_plain.parsed)) = Len(EntriesOf(e_doc))
        /\ \A p \in 1..Len(EntriesOf(e_doc)) :
               ~CarriesHead(EntriesOf(e_doc)[p]) =>
                   EntriesOf(e_plain.parsed)[p] = EntriesOf(e_doc)[p]

\* C10, the case: a reply whose first entry has a head and whose second is a
\* mapping without one went through the field ordering, which rebuilt the
\* first.
HeadlessEntryWitness ==
    /\ Enriched
    /\ IsSchemaDoc(e_doc)
    /\ ~e_plain.raised
    /\ Len(EntriesOf(e_doc)) = 2
    /\ CarriesHead(EntriesOf(e_doc)[1])
    /\ EntriesOf(e_plain.parsed)[1] # EntriesOf(e_doc)[1]
    /\ EntriesOf(e_doc)[2].t = "obj"
    /\ ~CarriesHead(EntriesOf(e_doc)[2])
    /\ EntriesOf(e_plain.parsed)[2] = EntriesOf(e_doc)[2]

---------------------------------------------------------------------------
(* correct_sloka_with_claude *)

\* a mutant of correct_sloka_with_claude: nothing is returned for a sloka
\* whose correction failed
correct_sloka_drops_original(sloka_text, reply) ==
    IF reply.raises THEN <<>> ELSE Strip(reply.text)

\* lines 45-58; reply.raises: client.messages.create raised
correct_sloka_with_claude(sloka_text, reply) ==
    IF reply.raises THEN sloka_text ELSE Strip(reply.text)

---------------------------------------------------------------------------
(* The batch and the oracles of a run of main *)

\* the slokas extract_slokas may hand over: the keys of yaml_data
SlokaTexts ==
    { <<"a">>,
      <<"b">>,
      <<"a", Danda, Danda>>,
      <<"a", NL, "b">> }

\* the batches: slokas that differ from one another, in any order
Batches ==
    {b \in SeqsUpTo(SlokaTexts, MaxSlokas) :
        \A p, q \in 1..Len(b) : p # q => b[p] # b[q]}

Raises == [raises |-> TRUE, text |-> <<>>]

Replies(text) == [raises |-> FALSE, text |-> text]

\* what the text-correction oracle may do on a call
CorrectionOutcomes ==
    { Raises,
      Replies(<<"a">>),
      Replies(<<SP, "b", SP, SP, Danda, Danda, NL>>) }

HeadEntryDoc ==
    JObj(<<"entries">>, <<JList(<<JObj(<<"gender", "head">>, <<JStr("m"), JStr("x")>>)>>)>>)

\* what the semantic-parse oracle may do on a call: raise, or reply with a
\* text cut short, with the requested JSON bare or in a code fence, with a
\* JSON list, or with an entry that is a number
ParseOutcomes ==
    { Raises,
      Replies(<<LBrace, Quote("entries"), Colon>>),
      Replies(Encode(HeadEntryDoc, FALSE)),
      Replies(Fenced(Encode(HeadEntryDoc, TRUE), <<"j", "s", "o", "n">>, TRUE, TRUE)),
      Replies(<<LBrack, RBrack>>),
      Replies(Encode(JObj(<<"entries">>, <<JList(<<JNum("5")>>)>>), FALSE)) }

---------------------------------------------------------------------------
(* main *)

\* a mutant of AfterCorrecting: the loop of line 246 ends after its first sloka
CorrectionLoopEndsEarly(index, total) == "corrected"

\* the for loop of line 246 after the sloka at index: the next sloka, or line 259
AfterCorrecting(index, total) == IF index < total THEN "correct" ELSE "corrected"

\* the for loop of line 266 after the sloka at index: the next sloka, or line 286
AfterEnriching(index, total) == IF index < total THEN "enrich" ELSE "write"

\* a mutant of EnrichmentEnabled: --skip-enrichment is ignored
EnrichmentAlways(skip) == TRUE

\* line 262
EnrichmentEnabled(skip) == ~skip

MInit ==
    /\ pc = "start"
    /\ yaml_data \in Batches
    /\ skip_enrichment \in BOOLEAN
    /\ i = 0
    /\ message = NoMessage
    /\ corrected_sloka = <<>>
    /\ corrected_data = EmptyMapping
    /\ parsed = JNull
    /\ enriched_data = EmptyMapping
    /\ final_data = EmptyMapping
    /\ yaml_file = NoFile
    /\ calls = <<>>
    /\ keys = <<>>
    /\ NIdle
    /\ EIdle

\* lines 209-211: the input file does not exist
InputMissing ==
    /\ pc = "start"
    /\ pc' = "exit"
    /\ UNCHANGED <<yaml_data, skip_enrichment, i, message, corrected_sloka, corrected_data,
                   parsed, enriched_data, final_data, yaml_file, calls, keys, n_vars, e_vars>>

\* lines 213-232: OCR, extraction and the temporary structure
InputRead ==
    /\ pc = "start"
    /\ pc' = "client"
    /\ UNCHANGED <<yaml_data, skip_enrichment, i, message, corrected_sloka, corrected_data,
                   parsed, enriched_data, final_data, yaml_file, calls, keys, n_vars, e_vars>>

\* lines 236-241: AnthropicVertex raised
ClientFails ==
    /\ pc = "client"
    /\ pc' = "exit"
    /\ UNCHANGED <<yaml_data, skip_enrichment, i, message, corrected_sloka, corrected_data,
                   parsed, enriched_data, final_data, yaml_file, calls, keys, n_vars, e_vars>>

\* lines 235, 244-246
ClientReady ==
    /\ pc = "client"
    /\ corrected_data' = EmptyMapping
    /\ i' = 1
    /\ pc' = AfterCorrecting(0, Len(yaml_data))
    /\ UNCHANGED <<yaml_data, skip_enrichment, message, corrected_sloka, parsed,
                   enriched_data, final_data, yaml_file, calls, keys, n_vars, e_vars>>

\* lines 246-257, one sloka
CorrectSloka ==
    /\ pc = "correct"
    /\ \E reply \in CorrectionOutcomes :
         LET sloka == yaml_data[i]
             corrected == correct_sloka_with_claude(sloka, reply)
             key == NormalizeSloka(corrected)
         IN  /\ message' = reply
             /\ corrected_sloka' = corrected
             /\ corrected_data' = DictSet(corrected_data, key, EmptyMapping)
             /\ calls' = Append(calls, [oracle |-> "correct", index |-> i, sloka |-> sloka])
             /\ keys' = Append(keys, key)
    /\ i' = i + 1
    /\ pc' = AfterCorrecting(i, Len(yaml_data))
    /\ UNCHANGED <<yaml_data, skip_enrichment, parsed, enriched_data, final_data,
                   yaml_file, n_vars, e_vars>>

\* lines 262-266
BeginEnrichment ==
    /\ pc = "corrected"
    /\ EnrichmentEnabled(skip_enrichment)
    /\ enriched_data' = EmptyMapping
    /\ i' = 1
    /\ pc' = AfterEnriching(0, Len(corrected_data.k))
    /\ final_data' = IF Len(corrected_data.k) = 0 THEN EmptyMapping ELSE final_data
    /\ UNCHANGED <<yaml_data, skip_enrichment, message, corrected_sloka, corrected_data,
                   parsed, yaml_file, calls, keys, n_vars, e_vars>>

\* lines 288-290
SkipEnrichment ==
    /\ pc = "corrected"
    /\ ~EnrichmentEnabled(skip_enrichment)
    /\ final_data' = corrected_data
    /\ pc' = "write"
    /\ UNCHANGED <<yaml_data, skip_enrichment, i, message, corrected_sloka, corrected_data,
                   parsed, enriched_data, yaml_file, calls, keys, n_vars, e_vars>>

\* lines 266-287, one sloka: an exception of lines 272-282 leaves main
EnrichSloka ==
    /\ pc = "enrich"
    /\ \E reply \in ParseOutcomes :
         LET sloka == corrected_data.k[i]
             r == AddVerify(parse_sloka_with_claude(reply))
             enriched == DictSet(enriched_data, sloka, r.parsed)
         IN  /\ message' = reply
             /\ parsed' = r.parsed
             /\ calls' = Append(calls, [oracle |-> "parse", index |-> i, sloka |-> sloka])
             /\ IF r.raised
                THEN /\ pc' = "raised"
                     /\ UNCHANGED <<i, enriched_data, final_data>>
                ELSE /\ enriched_data' = enriched
                     /\ i' = i + 1
                     /\ pc' = AfterEnriching(i, Len(corrected_data.k))
                     /\ final_data' = IF i < Len(corrected_data.k) THEN final_data
                                      ELSE enriched
    /\ UNCHANGED <<yaml_data, skip_enrichment, corrected_sloka, corrected_data,
                   yaml_file, keys, n_vars, e_vars>>

\* lines 293-299
WriteYaml ==
    /\ pc = "write"
    /\ yaml_file' = [exists |-> TRUE, data |-> final_data]
    /\ pc' = "done"
    /\ UNCHANGED <<yaml_data, skip_enrichment, i, message, corrected_sloka, corrected_data,
                   parsed, enriched_data, final_data, calls, keys, n_vars, e_vars>>

Next ==
    \/ InputMissing
    \/ InputRead
    \/ ClientFails
    \/ ClientReady
    \/ CorrectSloka
    \/ BeginEnrichment
    \/ SkipEnrichment
    \/ EnrichSloka
    \/ WriteYaml

Spec == MInit /\ [][Next]_vars

---------------------------------------------------------------------------
(* Properties of a run of main *)

\* the calls made to one oracle, in order
CallsTo(oracle) == SelectSeq(calls, LAMBDA call : call.oracle = oracle)

\* the texts of a sequence in order of first appearance
RECURSIVE FirstAppearances(_)
FirstAppearances(texts) ==
    IF texts = <<>> THEN <<>>
    ELSE LET earlier == FirstAppearances(DropLast(texts, 1))
             last == texts[Len(texts)]
         IN  IF \E p \in 1..Len(earlier) : earlier[p] = last THEN earlier
             ELSE Append(earlier, last)

\* the text has no line break, no whitespace at either end, no two spaces
\* in a row and no two single dandas in a row
InNormalForm(text) ==
    /\ \A p \in 1..Len(text) : text[p] # NL
    /\ text # <<>> => (text[1] # SP /\ text[Len(text)] # SP)
    /\ \A p \in 1..(Len(text) - 1) :
           /\ ~(text[p] = SP /\ text[p + 1] = SP)
           /\ ~(text[p] = Danda /\ text[p + 1] = Danda)

\* a sloka has just gone through lines 247-257
JustCorrected == pc \in {"correct", "corrected"} /\ keys # <<>>

\* the sloka that has just gone through lines 247-257
LastSloka == yaml_data[Len(keys)]

\* C1: whatever the oracles do on a sloka, the run goes on: it stops
\* without writing the output only at setup, before any call of an oracle.
FailureIsolation == pc \in {"exit", "raised"} => calls = <<>>

\* C2, as claimed: when the correction oracle raises, the sloka is returned
\* unchanged and the key accumulated for it is exactly the original text.
RaisedKeepsOriginalAsKey ==
    (JustCorrected /\ message.raises) =>
        /\ corrected_sloka = LastSloka
        /\ keys[Len(keys)] = LastSloka
        /\ DictHas(corrected_data, LastSloka)

\* C2, amended: when the correction oracle raises, the sloka is returned
\* unchanged, and the key accumulated for it is the normalization of the
\* original text: the original text itself when that is in normal form.
RaisedKeepsNormalizedOriginal ==
    (JustCorrected /\ message.raises) =>
        /\ corrected_sloka = LastSloka
        /\ keys[Len(keys)] = NormalizeSloka(LastSloka)
        /\ DictHas(corrected_data, keys[Len(keys)])
        /\ InNormalForm(LastSloka) => keys[Len(keys)] = LastSloka

\* C2, the case: the oracle raised on a sloka that ends in two single
\* dandas, and the key set for it is another text.
RaisedOnUnnormalizedWitness ==
    /\ JustCorrected
    /\ message.raises
    /\ LastSloka = <<"a", Danda, Danda>>
    /\ corrected_sloka = LastSloka
    /\ keys[Len(keys)] = <<"a", DoubleDanda>>

\* C5: the keys of the output are the normalized corrected texts of the
\* batch in input order, each at the place of its first appearance.
KeysInOrderOfFirstAppearance ==
    yaml_file.exists =>
        /\ Len(keys) = Len(yaml_data)
        /\ yaml_file.data.k = FirstAppearances(keys)

\* C5, the case: three slokas, the third corrected to the text of the
\* first, enriched and written as two entries.
KeysCollapseWitness ==
    /\ yaml_file.exists
    /\ ~skip_enrichment
    /\ Len(keys) = 3
    /\ keys[1] = keys[3]
    /\ keys[1] # keys[2]
    /\ yaml_file.data.k = <<keys[1], keys[2]>>

\* C6, as claimed: with enrichment enabled, the correction call for a sloka
\* comes only after the enrichment call for the sloka before it.
OneSlokaAtATime ==
    ~skip_enrichment =>
        \A p \in 1..Len(calls) :
            (calls[p].oracle = "correct" /\ calls[p].index > 1) =>
                \E q \in 1..(p - 1) :
                    /\ calls[q].oracle = "parse"
                    /\ calls[q].sloka = keys[calls[p].index - 1]

\* C6, amended: the run makes two passes.  Every sloka of the batch is
\* corrected, in input order, before the first enrichment call; the
\* enrichment calls then take the keys of corrected_data in their order.
TwoPasses ==
    /\ \A p \in 1..Len(CallsTo("correct")) :
           /\ CallsTo("correct")[p].index = p
           /\ CallsTo("correct")[p].sloka = yaml_data[p]
    /\ \A p \in 1..Len(CallsTo("parse")) :
           /\ CallsTo("parse")[p].index = p
           /\ CallsTo("parse")[p].sloka = corrected_data.k[p]
    /\ calls = CallsTo("correct") \o CallsTo("parse")
    /\ pc \in {"corrected", "enrich", "write", "done", "raised"} =>
           Len(CallsTo("correct")) = Len(yaml_data)

\* C6, the case: two slokas were corrected and then both were enriched.
TwoPassesWitness ==
    /\ pc = "done"
    /\ Len(CallsTo("correct")) >= 2
    /\ Len(CallsTo("parse")) >= 2
    /\ calls[2].oracle = "correct"
    /\ calls[Len(calls)].oracle = "parse"

\* C8: with enrichment skipped the semantic-parse oracle is never called
\* and every sloka of the output has an empty mapping.
CorrectionOnly ==
    skip_enrichment =>
        /\ CallsTo("parse") = <<>>
        /\ yaml_file.exists =>
               /\ yaml_file.data.k = corrected_data.k
               /\ \A p \in 1..Len(yaml_file.data.c) : yaml_file.data.c[p] = EmptyMapping

\* C8, the case: a batch of two slokas or more was corrected and written
\* with enrichment skipped.
CorrectionOnlyWitness ==
    /\ skip_enrichment
    /\ yaml_file.exists
    /\ Len(yaml_file.data.k) >= 2
    /\ Len(calls) >= 2

---------------------------------------------------------------------------
(* The normalization applied to a text, and again to its own result *)

NInit ==
    /\ n_pc = "raw"
    /\ n_text \in TextsUpTo(SlokaAlphabet, MaxTextLen)
    /\ n_once = <<>>
    /\ n_twice = <<>>
    /\ EIdle
    /\ MIdle

NormalizeOnce ==
    /\ n_pc = "raw"
    /\ n_once' = NormalizeSloka(n_text)
    /\ n_pc' = "once"
    /\ UNCHANGED <<n_text, n_twice, e_vars, m_vars>>

NormalizeAgain ==
    /\ n_pc = "once"
    /\ n_twice' = NormalizeSloka(n_once)
    /\ n_pc' = "twice"
    /\ UNCHANGED <<n_text, n_once, e_vars, m_vars>>

NNext == NormalizeOnce \/ NormalizeAgain

SpecNormalize == NInit /\ [][NNext]_vars

\* the text holds three single dandas in a row
HasDandaRun3(s) ==
    \E p \in 1..(Len(s) - 2) : s[p] = Danda /\ s[p + 1] = Danda /\ s[p + 2] = Danda

\* C9: normalizing an already-normalized corrected sloka yields the identical
\* value, also when the text holds a run of three or more single dandas.
NormalizeIdempotent == n_pc = "twice" => n_twice = n_once

\* C9, the case: a text with a run of three single dandas, two line breaks or
\* spaces to collapse, normalized twice.
NormalizeIdempotentWitness ==
    /\ n_pc = "twice"
    /\ HasDandaRun3(n_text)
    /\ n_once # n_text
    /\ \E p \in 1..Len(n_once) : n_once[p] = DoubleDanda
====
